---- MODULE Spec2Model ----
(***************************************************************************)
(* Model of the dpar arc-standard transition system, its static oracle,    *)
(* the greedy parsing loop and the textual transition encoding.            *)
(*                                                                         *)
(* A Go string is modelled as a sequence of one-character strings, so that *)
(* fmt.Sprintf and strings.SplitN are computed character by character.     *)
(***************************************************************************)
EXTENDS Integers, Sequences, FiniteSets, TLC

VARIABLES
    n,        \* number of real tokens of the sentence (indices 1..n, 0 = ROOT)
    gold,     \* goldDependencies handed to NewArcStandardOracle
    oracle,   \* ArcStandardOracle.dependentHeadMapping
    guide,    \* who drives c: the "oracle", any "legal" guide, a "direct" caller
    c,        \* the Configuration: [Stack, Buffer, Arcs]
    pc,       \* position of the caller: "parsing", "done", "panic", ...
    steps,    \* number of Apply calls performed on c
    last,     \* the Transition handed to the last Apply call
    lastLegal,\* whether that Transition's IsPossible held when it was applied
    possible, \* result of the last PossibleTransitions call
    trans,    \* Transition handed to SerializeTransition
    text,     \* string handed to DeserializeTransition
    out,      \* result of DeserializeTransition: [trans, err]
    xvec,     \* x of HashingSVMGuide.BestTransition: entries [Index, Value]
    maxFeatures, \* HashingSVMGuide.maxFeatures
    labels,   \* the model's labels, as the Transitions the numberer gives
    values,   \* decision values the model returned, one per label
    bestLabel,\* Transition returned by HashingSVMGuide.BestTransition
    pool,     \* concurrent parses sharing the oracle: [c, pc, next, trace]
    av,       \* an AddressedValue: [Address, Layer, LayerArg, Value]
    got,      \* outcome of AddressedValue.Get: [value, ok, panic]
    fed       \* what appendHash wrote to the hash, in order

\* Variables of the statistical guide, the parse pool and the addressing.
featureVars == <<xvec, maxFeatures, labels, values, bestLabel, pool, av, got, fed>>

vars == <<n, gold, oracle, guide, c, pc, steps, last, lastLegal, possible,
          trans, text, out, featureVars>>

-----------------------------------------------------------------------------
(* Bounds *)

MaxN == 3        \* longest sentence
MaxConfLen == 2  \* longest Stack / Buffer of a hand-built Configuration
MaxRelLen == 2   \* longest relation string that is serialized
MaxTailLen == 2  \* longest free suffix of a string that is deserialized

-----------------------------------------------------------------------------
(* Strings *)

RECURSIVE StringsUpTo(_, _)
StringsUpTo(alphabet, k) ==
    IF k = 0 THEN {<<>>}
    ELSE LET shorter == StringsUpTo(alphabet, k - 1)
         IN  shorter \cup {Append(s, ch) : s \in shorter, ch \in alphabet}

Space == " "
RelA == <<"a">>
RelB == <<"b">>
Rels == {RelA, RelB}
ArchetypeRel == <<"<", "a", "r", "c", "h", "e", "t", "y", "p", "e", ">">>

KwShift == <<"S", "H", "I", "F", "T">>
KwLeftArc == <<"L", "E", "F", "T", "_", "A", "R", "C">>
KwRightArc == <<"R", "I", "G", "H", "T", "_", "A", "R", "C">>

-----------------------------------------------------------------------------
(* Dependencies and configurations *)

ROOT == 0

Dependency(head, relation, dependant) ==
    [Head |-> head, Relation |-> relation, Dependent |-> dependant]

\* Go's zero value of Dependency, returned by a map index with a missing key.
ZeroDependency == Dependency(0, <<>>, 0)

\* DependencySet.CreateDependentHeadMapping: dependent -> Dependency.
CreateDependentHeadMapping(deps) ==
    [d \in {x.Dependent : x \in deps} |->
        CHOOSE x \in deps : x.Dependent = d]

\* o.dependentHeadMapping[token]
MapIndex(m, token) ==
    IF token \in DOMAIN m THEN m[token] ELSE ZeroDependency

\* NewConfiguration: Stack empty, Buffer = all indices 0..len(tokens) in order.
NewConfiguration(len) ==
    [Stack |-> <<>>, Buffer |-> [i \in 1..(len + 1) |-> i - 1], Arcs |-> {}]

\* Configuration.AddDependency
AddDependency(conf, dependency) ==
    [conf EXCEPT !.Arcs = conf.Arcs \cup {dependency}]

\* Configuration.Dependencies
Dependencies(conf) == conf.Arcs

-----------------------------------------------------------------------------
(* Transitions *)

asShift == [kind |-> "asShift"]
asLeftArc(relation) == [kind |-> "asLeftArc", relation |-> relation]
asRightArc(relation) == [kind |-> "asRightArc", relation |-> relation]
NilTransition == [kind |-> "nil"]

archetypeASShift == asShift
archetypeASLeftArc == asLeftArc(ArchetypeRel)
archetypeASRightArc == asRightArc(ArchetypeRel)

\* NewArcStandard: the archetype transition set.
archetypeTransitions ==
    {archetypeASShift, archetypeASLeftArc, archetypeASRightArc}

IsTerminal(conf) == Len(conf.Buffer) = 0

\* Fault: the ROOT test on the stack top is left out.
asLeftArcIsPossibleAtRoot(conf) ==
    Len(conf.Stack) # 0 /\ Len(conf.Buffer) # 0

asLeftArcIsPossible(conf) ==
    LET stackSize == Len(conf.Stack)
    IN  /\ Len(conf.Stack) # 0
        /\ Len(conf.Buffer) # 0
        /\ conf.Stack[stackSize] # 0

asRightArcIsPossible(conf) ==
    Len(conf.Stack) # 0 /\ Len(conf.Buffer) # 0

\* Fault: Shift asks for a non-empty Stack as the arc transitions do.
asShiftIsPossibleNeedsStack(conf) ==
    Len(conf.Stack) # 0 /\ Len(conf.Buffer) # 0

asShiftIsPossible(conf) == Len(conf.Buffer) # 0

IsPossible(t, conf) ==
    CASE t.kind = "asShift" -> asShiftIsPossible(conf)
      [] t.kind = "asLeftArc" -> asLeftArcIsPossible(conf)
      [] t.kind = "asRightArc" -> asRightArcIsPossible(conf)

PossibleTransitions(conf) ==
    {t \in archetypeTransitions : IsPossible(t, conf)}

\* Outcome of a call that may hit a Go runtime panic (index out of range).
Panicked(conf) == [panic |-> TRUE, c |-> conf]
Completed(conf) == [panic |-> FALSE, c |-> conf]

\* Fault: the dependant is not popped from the Stack.
asLeftArcApplyKeepsStack(relation, conf) ==
    LET stackSize == Len(conf.Stack)
    IN  IF Len(conf.Buffer) = 0 THEN Panicked(conf)
        ELSE IF stackSize = 0 THEN Panicked(conf)
        ELSE LET head == conf.Buffer[1]
                 dependant == conf.Stack[stackSize]
                 dependency == Dependency(head, relation, dependant)
             IN  Completed(AddDependency(conf, dependency))

asLeftArcApply(relation, conf) ==
    LET stackSize == Len(conf.Stack)
    IN  IF Len(conf.Buffer) = 0 THEN Panicked(conf)    \* c.Buffer[0]
        ELSE IF stackSize = 0 THEN Panicked(conf)      \* c.Stack[stackSize-1]
        ELSE LET head == conf.Buffer[1]
                 dependant == conf.Stack[stackSize]
                 dependency == Dependency(head, relation, dependant)
                 added == AddDependency(conf, dependency)
             IN  Completed([added EXCEPT
                     !.Stack = SubSeq(conf.Stack, 1, stackSize - 1)])

\* Fault: the head is not popped from the Stack.
asRightArcApplyKeepsStack(relation, conf) ==
    LET stackSize == Len(conf.Stack)
    IN  IF Len(conf.Buffer) = 0 THEN Panicked(conf)
        ELSE IF stackSize = 0 THEN Panicked(conf)
        ELSE LET dependant == conf.Buffer[1]
                 head == conf.Stack[stackSize]
                 dependency == Dependency(head, relation, dependant)
                 added == AddDependency(conf, dependency)
             IN  Completed([added EXCEPT
                     !.Buffer = [conf.Buffer EXCEPT ![1] = head]])

\* Fault: textbook arc-standard, the head stays on the Stack and the
\* dependant leaves the Buffer.
asRightArcApplyTextbook(relation, conf) ==
    LET stackSize == Len(conf.Stack)
    IN  IF Len(conf.Buffer) = 0 THEN Panicked(conf)
        ELSE IF stackSize = 0 THEN Panicked(conf)
        ELSE LET dependant == conf.Buffer[1]
                 head == conf.Stack[stackSize]
                 dependency == Dependency(head, relation, dependant)
                 added == AddDependency(conf, dependency)
             IN  Completed([added EXCEPT !.Buffer = Tail(conf.Buffer)])

\* Fault: the Buffer front is not overwritten with the head.
asRightArcApplyKeepsFront(relation, conf) ==
    LET stackSize == Len(conf.Stack)
    IN  IF Len(conf.Buffer) = 0 THEN Panicked(conf)
        ELSE IF stackSize = 0 THEN Panicked(conf)
        ELSE LET dependant == conf.Buffer[1]
                 head == conf.Stack[stackSize]
                 dependency == Dependency(head, relation, dependant)
                 added == AddDependency(conf, dependency)
             IN  Completed([added EXCEPT
                     !.Stack = SubSeq(conf.Stack, 1, stackSize - 1)])

asRightArcApply(relation, conf) ==
    LET stackSize == Len(conf.Stack)
    IN  IF Len(conf.Buffer) = 0 THEN Panicked(conf)    \* c.Buffer[0]
        ELSE IF stackSize = 0 THEN Panicked(conf)      \* c.Stack[stackSize-1]
        ELSE LET dependant == conf.Buffer[1]
                 head == conf.Stack[stackSize]
                 dependency == Dependency(head, relation, dependant)
                 added == AddDependency(conf, dependency)
             IN  Completed([added EXCEPT
                     !.Stack = SubSeq(conf.Stack, 1, stackSize - 1),
                     !.Buffer = [conf.Buffer EXCEPT ![1] = head]])

\* Fault: the token goes under the Stack instead of on top of it.
asShiftApplyUnder(conf) ==
    IF Len(conf.Buffer) = 0 THEN Panicked(conf)
    ELSE LET token == conf.Buffer[1]
         IN  Completed([conf EXCEPT
                 !.Buffer = Tail(conf.Buffer),
                 !.Stack = <<token>> \o conf.Stack])

asShiftApply(conf) ==
    IF Len(conf.Buffer) = 0 THEN Panicked(conf)        \* c.Buffer[0]
    ELSE LET token == conf.Buffer[1]
         IN  Completed([conf EXCEPT
                 !.Buffer = Tail(conf.Buffer),
                 !.Stack = Append(conf.Stack, token)])

Apply(t, conf) ==
    CASE t.kind = "asShift" -> asShiftApply(conf)
      [] t.kind = "asLeftArc" -> asLeftArcApply(t.relation, conf)
      [] t.kind = "asRightArc" -> asRightArcApply(t.relation, conf)

-----------------------------------------------------------------------------
(* The static oracle *)

\* Fault: the Buffer is not searched for dependents of the token.
neededForAttachmentSkipped(o, conf, token) == FALSE

\* Fault: only the Buffer front itself is looked at.
neededForAttachmentFrontOnly(o, conf, token) ==
    MapIndex(o, conf.Buffer[1]).Head = token

neededForAttachment(o, conf, token) ==
    \E i \in 1..Len(conf.Buffer) :
        MapIndex(o, conf.Buffer[i]).Head = token

\* Fault: the oracle takes the bottom of the Stack for its top.
BestTransitionStackBottom(o, conf) ==
    LET stackSize == Len(conf.Stack)
    IN  IF stackSize # 0
        THEN LET stackTip == conf.Stack[1]
                 bufferHead == conf.Buffer[1]
                 la == asLeftArc(MapIndex(o, stackTip).Relation)
                 ra == asRightArc(MapIndex(o, bufferHead).Relation)
             IN  IF asLeftArcIsPossible(conf)
                    /\ MapIndex(o, stackTip).Head = bufferHead
                 THEN la
                 ELSE IF asRightArcIsPossible(conf)
                         /\ MapIndex(o, bufferHead).Head = stackTip
                         /\ ~neededForAttachment(o, conf, bufferHead)
                 THEN ra
                 ELSE asShift
        ELSE asShift

BestTransition(o, conf) ==
    LET stackSize == Len(conf.Stack)
    IN  IF stackSize # 0
        THEN LET stackTip == conf.Stack[stackSize]
                 bufferHead == conf.Buffer[1]
                 la == asLeftArc(MapIndex(o, stackTip).Relation)
                 ra == asRightArc(MapIndex(o, bufferHead).Relation)
             IN  IF asLeftArcIsPossible(conf)
                    /\ MapIndex(o, stackTip).Head = bufferHead
                 THEN la
                 ELSE IF asRightArcIsPossible(conf)
                         /\ MapIndex(o, bufferHead).Head = stackTip
                         /\ ~neededForAttachment(o, conf, bufferHead)
                 THEN ra
                 ELSE asShift
        ELSE asShift

-----------------------------------------------------------------------------
(* Textual transition encoding *)

NoError == "nil"
EmptyTransitionError == "Empty transition"
UnknownTransitionError == "Unknown transition"
LeftArcArgumentError == "Left-Arc transition requires label argument"
RightArcArgumentError == "Right-Arc transition requires label argument"
NotArcStandardError == "Not a transition of the arc standard system"

\* Index of the first occurrence of sep in s, 0 when there is none.
IndexOf(s, sep) ==
    IF \E i \in 1..Len(s) : s[i] = sep
    THEN CHOOSE i \in 1..Len(s) :
             s[i] = sep /\ \A j \in 1..(i - 1) : s[j] # sep
    ELSE 0

\* Fault: the string is cut at its last separator instead of its first.
SplitAtLast(s, sep) ==
    IF \E i \in 1..Len(s) : s[i] = sep
    THEN LET i == CHOOSE k \in 1..Len(s) :
                      s[k] = sep /\ \A j \in (k + 1)..Len(s) : s[j] # sep
         IN  <<SubSeq(s, 1, i - 1), SubSeq(s, i + 1, Len(s))>>
    ELSE <<s>>

\* strings.SplitN(s, sep, 2) for a one-character separator.
SplitN2(s, sep) ==
    LET i == IndexOf(s, sep)
    IN  IF i = 0 THEN <<s>>
        ELSE <<SubSeq(s, 1, i - 1), SubSeq(s, i + 1, Len(s))>>

SerializeTransition(t) ==
    CASE t.kind = "asLeftArc" ->
           [str |-> KwLeftArc \o <<Space>> \o t.relation, err |-> NoError]
      [] t.kind = "asRightArc" ->
           [str |-> KwRightArc \o <<Space>> \o t.relation, err |-> NoError]
      [] t.kind = "asShift" -> [str |-> KwShift, err |-> NoError]
      [] OTHER -> [str |-> <<>>, err |-> NotArcStandardError]

\* Fault: a keyword without argument is read as the empty relation.
DeserializeTransitionLenient(transString) ==
    LET parts == SplitN2(transString, Space)
    IN  CASE parts[1] = KwLeftArc ->
               [trans |-> asLeftArc(IF Len(parts) = 1 THEN <<>> ELSE parts[2]),
                err |-> NoError]
          [] parts[1] = KwRightArc ->
               [trans |-> asRightArc(IF Len(parts) = 1 THEN <<>> ELSE parts[2]),
                err |-> NoError]
          [] parts[1] = KwShift -> [trans |-> asShift, err |-> NoError]
          [] OTHER -> [trans |-> NilTransition, err |-> UnknownTransitionError]

DeserializeTransition(transString) ==
    LET parts == SplitN2(transString, Space)
    IN  IF Len(parts) = 0
        THEN [trans |-> NilTransition, err |-> EmptyTransitionError]
        ELSE CASE parts[1] = KwLeftArc ->
                    IF Len(parts) = 1
                    THEN [trans |-> NilTransition, err |-> LeftArcArgumentError]
                    ELSE [trans |-> asLeftArc(parts[2]), err |-> NoError]
               [] parts[1] = KwRightArc ->
                    IF Len(parts) = 1
                    THEN [trans |-> NilTransition, err |-> RightArcArgumentError]
                    ELSE [trans |-> asRightArc(parts[2]), err |-> NoError]
               [] parts[1] = KwShift -> [trans |-> asShift, err |-> NoError]
               [] OTHER -> [trans |-> NilTransition, err |-> UnknownTransitionError]

-----------------------------------------------------------------------------
(* Inputs *)

\* Head assignments over 1..len in which every token leads to ROOT.
RECURSIVE LeadsToRoot(_, _, _)
LeadsToRoot(heads, token, fuel) ==
    \/ token = ROOT
    \/ fuel > 0 /\ LeadsToRoot(heads, heads[token], fuel - 1)

IsTree(heads, len) == \A d \in 1..len : LeadsToRoot(heads, d, len)

GoldTrees(len) ==
    {{Dependency(heads[d], rels[d], d) : d \in 1..len} :
        heads \in {h \in [1..len -> 0..len] : IsTree(h, len)},
        rels \in [1..len -> Rels]}

Transitions ==
    {asShift} \cup {asLeftArc(r) : r \in Rels} \cup {asRightArc(r) : r \in Rels}

\* Apply calls are counted; a run is cut off beyond what any sentence needs.
StepCap == 2 * (MaxN + 1) + 2

NoOutput == [trans |-> NilTransition, err |-> "none"]

IdleSerializer ==
    /\ trans = NilTransition
    /\ text = <<>>
    /\ out = NoOutput

\* Source
STACK == 0
BUFFER == 1
LDEP == 2
RDEP == 3

\* Layer
TOKEN == 0
TAG == 1
DEPREL == 2
FEATURE == 3

AddressComponent(source, index) == [Source |-> source, Index |-> index]

AddressedValue(address, layer, layerArg, value) ==
    [Address |-> address, Layer |-> layer, LayerArg |-> layerArg,
     Value |-> value]

NoAddressedValue == AddressedValue(<<>>, TOKEN, <<>>, <<>>)

NoResult == [value |-> <<>>, ok |-> FALSE, panic |-> FALSE]

IdleGuide ==
    /\ xvec = <<>>
    /\ maxFeatures = 1
    /\ labels = <<>>
    /\ values = <<>>
    /\ bestLabel = NilTransition

IdlePool == pool = <<>>

IdleAddress ==
    /\ av = NoAddressedValue
    /\ got = NoResult
    /\ fed = <<>>

IdleFeatures == IdleGuide /\ IdlePool /\ IdleAddress

IdleParser ==
    /\ steps = 0
    /\ last = NilTransition
    /\ lastLegal = TRUE
    /\ possible = {}

-----------------------------------------------------------------------------
(* GreedyParser.Parse with the oracle or with any guide that picks a legal *)
(* transition                                                              *)

Init ==
    \E len \in 1..MaxN, g \in {"oracle", "legal"} :
        /\ n = len
        /\ guide = g
        /\ gold \in (IF g = "oracle" THEN GoldTrees(len) ELSE {{}})
        /\ oracle = CreateDependentHeadMapping(gold)
        /\ c = NewConfiguration(len)
        /\ pc = "parsing"
        /\ IdleParser
        /\ IdleSerializer
        /\ IdleFeatures

\* t.Apply(c)
ApplyStep(t) ==
    /\ steps < StepCap
    /\ LET r == Apply(t, c)
       IN  /\ c' = r.c
           /\ pc' = IF r.panic THEN "panic" ELSE pc
    /\ steps' = steps + 1
    /\ last' = t
    /\ lastLegal' = IsPossible(t, c)
    /\ UNCHANGED <<featureVars, n, gold, oracle, guide, possible, trans, text,
                   out>>

\* One iteration of parseConfiguration's loop with the ArcStandardOracle.
OracleStep ==
    /\ pc = "parsing"
    /\ guide = "oracle"
    /\ ~IsTerminal(c)
    /\ ApplyStep(BestTransition(oracle, c))

\* One iteration of the loop with a guide that returns some legal transition.
LegalStep ==
    /\ pc = "parsing"
    /\ guide = "legal"
    /\ ~IsTerminal(c)
    /\ \E t \in Transitions : IsPossible(t, c) /\ ApplyStep(t)

\* The loop ends and parseConfiguration returns c.Dependencies().
Return ==
    /\ pc = "parsing"
    /\ guide \in {"oracle", "legal"}
    /\ IsTerminal(c)
    /\ pc' = "done"
    /\ UNCHANGED <<featureVars, n, gold, oracle, guide, c, steps, last, lastLegal,
                   possible, trans, text, out>>

Next == OracleStep \/ LegalStep \/ Return

Spec == Init /\ [][Next]_vars

\* The loop of parseConfiguration keeps running until it returns.
FairSpec == Spec /\ WF_vars(Next)

-----------------------------------------------------------------------------
(* Properties of the parsing loop *)

Min(a, b) == IF a < b THEN a ELSE b
Max(a, b) == IF a < b THEN b ELSE a

\* token is head itself or one of its descendants in the gold tree
RECURSIVE Dominates(_, _, _)
Dominates(head, token, fuel) ==
    \/ token = head
    \/ /\ fuel > 0
       /\ token # ROOT
       /\ Dominates(head, MapIndex(oracle, token).Head, fuel - 1)

\* No token lying between a gold head and its dependent hangs outside the
\* head's subtree.
GoldIsProjective ==
    \A d \in gold :
        \A k \in (Min(d.Head, d.Dependent) + 1)..(Max(d.Head, d.Dependent) - 1) :
            Dominates(d.Head, k, n)

OracleParseDone == guide = "oracle" /\ pc = "done"

\* C2 as stated: for every gold tree, the oracle-driven parse returns exactly
\* the gold dependency set.
C2_OracleReproducesEveryGoldTree ==
    OracleParseDone => Dependencies(c) = gold

\* C2 amended: for every projective gold tree, the oracle-driven parse
\* returns exactly the gold dependency set.
C2_OracleReproducesProjectiveGold ==
    (OracleParseDone /\ GoldIsProjective) => Dependencies(c) = gold

C2_Witness ==
    /\ OracleParseDone
    /\ n = MaxN
    /\ GoldIsProjective
    /\ \E d \in gold : d.Head > d.Dependent
    /\ \E d \in gold : d.Head # ROOT /\ d.Head < d.Dependent
    /\ Dependencies(c) = gold


\* C3: driven by any guide that returns legal transitions, the loop reaches a
\* terminal configuration and returns, after at most 2*(n+1) transitions.
C3_TerminatesLinearly ==
    /\ <>(pc = "done")
    /\ [](steps <= 2 * (n + 1))
    /\ [](pc = "done" => IsTerminal(c))

\* The longest run: every token but ROOT is attached by an arc transition.
C3_Witness ==
    /\ guide = "legal"
    /\ pc = "done"
    /\ n = MaxN
    /\ steps = 2 * (n + 1) - 1

RightArcApplied == steps' = steps + 1 /\ last'.kind = "asRightArc"

\* C4: RightArc(rel) on Stack = S ++ [s], Buffer = [b] ++ B adds exactly the
\* dependency (s, rel, b), leaves Stack = S and Buffer = [s] ++ B, and changes
\* nothing else.
C4_RightArcEffect ==
    [][RightArcApplied =>
        /\ Len(c.Stack) > 0 /\ Len(c.Buffer) > 0
        /\ LET s == c.Stack[Len(c.Stack)]
               b == c.Buffer[1]
               dep == Dependency(s, last'.relation, b)
           IN  /\ dep \notin c.Arcs
               /\ c'.Arcs = c.Arcs \cup {dep}
               /\ Cardinality(c'.Arcs) = Cardinality(c.Arcs) + 1
               /\ c'.Stack = SubSeq(c.Stack, 1, Len(c.Stack) - 1)
               /\ c'.Buffer = <<s>> \o Tail(c.Buffer)
               /\ Len(c'.Buffer) = Len(c.Buffer)
               /\ DOMAIN c' = {"Stack", "Buffer", "Arcs"}
               /\ pc' = pc
               /\ UNCHANGED <<featureVars, n, gold, oracle, guide>>]_vars

\* A RightArc with a relation has just been applied under a deeper stack and
\* a longer buffer.
C4_Witness ==
    /\ pc = "parsing"
    /\ last = asRightArc(RelB)
    /\ Len(c.Stack) >= 1
    /\ Len(c.Buffer) >= 2
    /\ \E d \in c.Arcs : d.Dependent > d.Head /\ d.Head = c.Buffer[1]

Count(seq, token) == Cardinality({i \in DOMAIN seq : seq[i] = token})

Attached(conf) == {d.Dependent : d \in conf.Arcs}

\* C8: no token is the dependent of two dependencies.
C8_SingleHead ==
    \A d1 \in c.Arcs : \A d2 \in c.Arcs :
        d1.Dependent = d2.Dependent => d1 = d2

\* Every real token has been attached, by both kinds of arc transition.
C8_Witness ==
    /\ guide = "legal"
    /\ n = MaxN
    /\ Cardinality(c.Arcs) = n
    /\ \E d \in c.Arcs : d.Head > d.Dependent
    /\ \E d \in c.Arcs : d.Head < d.Dependent

\* C9: every token 1..n not yet attached as a dependent occurs exactly once
\* in Stack and Buffer together.
C9_UnattachedOnce ==
    \A token \in 1..n :
        token \notin Attached(c) =>
            Count(c.Stack, token) + Count(c.Buffer, token) = 1

\* After a LeftArc and a RightArc, an unattached token is back at the Buffer
\* front, where the RightArc put it.
C9_Witness ==
    /\ guide = "legal"
    /\ last.kind = "asRightArc"
    /\ \E d \in c.Arcs : d.Head > d.Dependent
    /\ \E d \in c.Arcs : d.Head < d.Dependent
    /\ c.Buffer[1] \in 1..n
    /\ c.Buffer[1] \notin Attached(c)


-----------------------------------------------------------------------------
(* Legality queries on hand-built configurations *)

TokenSeqs == StringsUpTo(0..MaxN, MaxConfLen)

ArcSets ==
    {{}, {Dependency(0, RelA, 1)},
     {Dependency(1, RelA, 0), Dependency(2, RelB, 1)}}

InitConf ==
    /\ n = MaxN
    /\ gold = {}
    /\ oracle = CreateDependentHeadMapping(gold)
    /\ guide = "none"
    /\ \E stack \in TokenSeqs, buffer \in TokenSeqs, arcs \in ArcSets :
           c = [Stack |-> stack, Buffer |-> buffer, Arcs |-> arcs]
    /\ pc = "built"
    /\ IdleParser
    /\ IdleSerializer
    /\ IdleFeatures

\* ts.PossibleTransitions(c)
QueryPossible ==
    /\ pc = "built"
    /\ possible' = PossibleTransitions(c)
    /\ pc' = "queried"
    /\ UNCHANGED <<featureVars, n, gold, oracle, guide, c, steps, last, lastLegal,
                   trans, text, out>>

NextConf == QueryPossible

SpecConf == InitConf /\ [][NextConf]_vars

\* C1: in every non-terminal configuration PossibleTransitions is non-empty
\* and contains Shift.
C1_NeverStuck ==
    (pc = "queried" /\ ~IsTerminal(c)) =>
        /\ possible # {}
        /\ archetypeASShift \in possible
        /\ \E t \in possible : IsPossible(t, c) /\ ~Apply(t, c).panic

\* A non-terminal configuration in which Shift is the only legal transition.
C1_Witness ==
    /\ pc = "queried"
    /\ c.Stack = <<>>
    /\ Len(c.Buffer) = MaxConfLen
    /\ c.Arcs # {}
    /\ possible = {archetypeASShift}

StackTopIsRoot(conf) ==
    Len(conf.Stack) > 0 /\ conf.Stack[Len(conf.Stack)] = ROOT

\* C5: with ROOT on top of the Stack, LeftArc is illegal for every relation
\* and every Buffer, and PossibleTransitions leaves the LeftArc archetype out.
C5_NoLeftArcAtRoot ==
    (pc = "queried" /\ StackTopIsRoot(c)) =>
        /\ ~asLeftArcIsPossible(c)
        /\ \A r \in Rels \cup {<<>>, ArchetypeRel} : ~IsPossible(asLeftArc(r), c)
        /\ archetypeASLeftArc \notin possible

\* ROOT on top of another token, Buffer non-empty: the other two are legal.
C5_Witness ==
    /\ pc = "queried"
    /\ Len(c.Stack) = 2
    /\ c.Stack[1] # ROOT
    /\ StackTopIsRoot(c)
    /\ possible = {archetypeASShift, archetypeASRightArc}

-----------------------------------------------------------------------------
(* A caller that applies transitions without consulting IsPossible *)

InitDirect ==
    \E len \in 1..MaxN :
        /\ n = len
        /\ gold = {}
        /\ oracle = CreateDependentHeadMapping(gold)
        /\ guide = "direct"
        /\ c = NewConfiguration(len)
        /\ pc = "calling"
        /\ IdleParser
        /\ IdleSerializer
        /\ IdleFeatures

DirectApply ==
    /\ pc = "calling"
    /\ guide = "direct"
    /\ \E t \in Transitions : ApplyStep(t)

NextDirect == DirectApply

SpecDirect == InitDirect /\ [][NextDirect]_vars

\* C10: applying a transition whose IsPossible is false aborts; it never
\* completes (a LeftArc under a ROOT stack top included).
C10_IllegalApplyAborts ==
    (steps > 0 /\ ~lastLegal) => pc = "panic"


-----------------------------------------------------------------------------
(* Writing and reading the textual form of transitions *)

Alphabet == {Space, "a", "b"}

\* Transitions handed to SerializeTransition.
SerTransitions ==
    {asShift}
        \cup {asLeftArc(r) : r \in StringsUpTo(Alphabet, MaxRelLen)}
        \cup {asRightArc(r) : r \in StringsUpTo(Alphabet, MaxRelLen)}

KwLeft == <<"L", "E", "F", "T">>
KwLowerShift == <<"s", "h", "i", "f", "t">>

\* Strings handed to DeserializeTransition that no serializer wrote.
InputTexts ==
    {pre \o suf :
        pre \in {<<>>, KwShift, KwLeftArc, KwRightArc, KwLeft, KwLowerShift},
        suf \in StringsUpTo(Alphabet, MaxTailLen)}

InitSer ==
    /\ n = 1
    /\ gold = {}
    /\ oracle = CreateDependentHeadMapping(gold)
    /\ guide = "none"
    /\ c = NewConfiguration(1)
    /\ pc = "start"
    /\ IdleParser
    /\ IdleSerializer
    /\ IdleFeatures

\* ts.SerializeTransition(t)
Serialize ==
    /\ pc = "start"
    /\ \E t \in SerTransitions :
        LET r == SerializeTransition(t)
        IN  /\ trans' = t
            /\ text' = r.str
            /\ pc' = IF r.err = NoError THEN "serialized" ELSE "failed"
    /\ UNCHANGED <<featureVars, n, gold, oracle, guide, c, steps, last, lastLegal,
                   possible, out>>

\* A transition string arrives from elsewhere.
ReadText ==
    /\ pc = "start"
    /\ \E s \in InputTexts : text' = s
    /\ pc' = "read"
    /\ UNCHANGED <<featureVars, n, gold, oracle, guide, c, steps, last, lastLegal,
                   possible, trans, out>>

\* ts.DeserializeTransition(text)
Deserialize ==
    /\ pc \in {"serialized", "read"}
    /\ out' = DeserializeTransition(text)
    /\ pc' = IF pc = "serialized" THEN "roundtrip" ELSE "parsed"
    /\ UNCHANGED <<featureVars, n, gold, oracle, guide, c, steps, last, lastLegal,
                   possible, trans, text>>

NextSer == Serialize \/ ReadText \/ Deserialize

SpecSer == InitSer /\ [][NextSer]_vars

\* C6: deserializing the serialized form of any arc-standard transition
\* succeeds and gives back an equal transition.
C6_RoundTrip ==
    pc = "roundtrip" => (out.err = NoError /\ out.trans = trans)

\* A relation of full length with a space in it has made the round trip.
C6_Witness ==
    /\ pc = "roundtrip"
    /\ trans.kind = "asRightArc"
    /\ Len(trans.relation) = MaxRelLen
    /\ \E i \in DOMAIN trans.relation : trans.relation[i] = Space
    /\ out.trans = trans

Keywords == {KwShift, KwLeftArc, KwRightArc}

\* The text before the first space (the whole text when it has none).
FirstWord(s) ==
    LET stops == {i \in 1..Len(s) : s[i] = Space}
    IN  IF stops = {} THEN s
        ELSE SubSeq(s, 1, (CHOOSE i \in stops : \A j \in stops : i <= j) - 1)

Deserialized == pc \in {"parsed", "roundtrip"}

Rejected == out.err # NoError /\ out.trans = NilTransition

\* C7 as stated: the empty string, a first word that is no keyword, and a
\* LEFT_ARC or RIGHT_ARC without relation argument (the keyword alone or
\* followed only by a space) are all rejected with an error.
C7_RejectsMissingRelation ==
    (/\ Deserialized
     /\ \/ text = <<>>
        \/ FirstWord(text) \notin Keywords
        \/ text \in {KwLeftArc, KwRightArc}
        \/ text \in {KwLeftArc \o <<Space>>, KwRightArc \o <<Space>>})
    => Rejected

\* C7 amended: the empty string, a first word that is no keyword, and a
\* LEFT_ARC or RIGHT_ARC keyword followed by nothing at all are rejected with
\* an error; the keyword followed only by a space is accepted as the
\* transition with the empty relation.
C7_RejectsBareKeyword ==
    Deserialized =>
        /\ (\/ text = <<>>
            \/ FirstWord(text) \notin Keywords
            \/ text \in {KwLeftArc, KwRightArc}) => Rejected
        /\ text = KwLeftArc \o <<Space>> =>
               out = [trans |-> asLeftArc(<<>>), err |-> NoError]
        /\ text = KwRightArc \o <<Space>> =>
               out = [trans |-> asRightArc(<<>>), err |-> NoError]

\* The bare RIGHT_ARC keyword has been rejected for its missing label.
C7_Witness ==
    /\ pc = "parsed"
    /\ text = KwRightArc
    /\ out = [trans |-> NilTransition, err |-> RightArcArgumentError]


-----------------------------------------------------------------------------
(* HashingSVMGuide.BestTransition *)

MaxVecLen == 2    \* longest hashed feature vector
MaxFeatures == 2  \* largest maxFeatures
MaxLabels == 3    \* largest number of labels of the model
MaxValue == 1     \* largest decision value

\* A 32-bit hash is kept as two 16-bit halves, [hi, lo] = hi * 2^16 + lo, so
\* that every intermediate value stays within the model checker's integers.
HalfWord == 65536        \* 2^16
SignHalf == 32768        \* upper half of 0x80000000
LowMask == 2147483647    \* 0x7fffffff

Hash(hi, lo) == [hi |-> hi, lo |-> lo]

\* hash & 0x80000000 == 0x80000000
SignBitSet(hash) == (hash.hi \div SignHalf) % 2 = 1

\* hash & 0x7fffffff
LowBits(hash) == (hash.hi % SignHalf) * HalfWord + hash.lo

\* Fault: the index is not moved off the reserved slot 0.
BoundFeatureFromZero(fv, bound) ==
    LET hash == fv.Index
        sign == IF SignBitSet(hash) THEN -1 ELSE 1
    IN  [Index |-> LowBits(hash) % bound, Value |-> fv.Value * sign]

\* One iteration of the "Introduce feature bounds" loop.
BoundFeature(fv, bound) ==
    LET hash == fv.Index
        sign == IF SignBitSet(hash) THEN -1 ELSE 1
    IN  [Index |-> (LowBits(hash) % bound) + 1, Value |-> fv.Value * sign]

BoundFeatures(vec, bound) ==
    [idx \in DOMAIN vec |-> BoundFeature(vec[idx], bound)]

\* math.Inf(-1): below every decision value.
NegInf == -1

\* Fault: a label has to beat the best value strictly.
SkipLabelOnTie(value, bestValue) == value <= bestValue

\* if value < bestValue { continue }
SkipLabel(value, bestValue) == value < bestValue

\* The loop over the decision values, from index idx on.
RECURSIVE BestLabelFrom(_, _, _, _, _, _)
BestLabelFrom(idx, vals, labs, conf, bestValue, best) ==
    IF idx > Len(vals) THEN best
    ELSE IF SkipLabel(vals[idx], bestValue)
         THEN BestLabelFrom(idx + 1, vals, labs, conf, bestValue, best)
         ELSE IF ~IsPossible(labs[idx], conf)
         THEN BestLabelFrom(idx + 1, vals, labs, conf, bestValue, best)
         ELSE BestLabelFrom(idx + 1, vals, labs, conf, vals[idx], labs[idx])

\* 0, 5, 0x7fffffff, 0x80000000, 0x80000005, 0xffffffff
HashSamples ==
    {Hash(0, 0), Hash(0, 5), Hash(SignHalf - 1, HalfWord - 1),
     Hash(SignHalf, 0), Hash(SignHalf, 5), Hash(HalfWord - 1, HalfWord - 1)}

HashedVectors ==
    StringsUpTo({[Index |-> h, Value |-> 3] : h \in HashSamples}, MaxVecLen)

LabelLists ==
    {ls \in StringsUpTo(Transitions \ {asLeftArc(RelB)}, MaxLabels) :
        /\ Len(ls) > 0
        /\ \A i \in DOMAIN ls : \A j \in DOMAIN ls : ls[i] = ls[j] => i = j}

\* Configurations the parser hands to its guide.
GuideConfigurations ==
    LET start == NewConfiguration(2)
        one == asShiftApply(start).c
        two == asShiftApply(one).c
    IN  {start, one, two}

InitSVM ==
    /\ n = 2
    /\ gold = {}
    /\ oracle = CreateDependentHeadMapping(gold)
    /\ guide = "svm"
    /\ c \in GuideConfigurations
    /\ pc = "asked"
    /\ IdleParser
    /\ IdleSerializer
    /\ IdlePool
    /\ IdleAddress
    /\ xvec \in HashedVectors
    /\ maxFeatures \in 1..MaxFeatures
    /\ labels \in LabelLists
    /\ values = <<>>
    /\ bestLabel = NilTransition

\* g.BestTransition(c): bound the hashed vector, take the model's decision
\* values, return the best legal label.
SVMBestTransition ==
    /\ pc = "asked"
    /\ guide = "svm"
    /\ xvec' = BoundFeatures(xvec, maxFeatures)
    /\ \E vals \in [DOMAIN labels -> 0..MaxValue] :
        /\ values' = vals
        /\ bestLabel' = BestLabelFrom(1, vals, labels, c, NegInf, NilTransition)
    /\ pc' = "answered"
    /\ UNCHANGED <<n, gold, oracle, guide, c, steps, last, lastLegal,
                   possible, trans, text, out, maxFeatures, labels, pool,
                   av, got, fed>>

NextSVM == SVMBestTransition

SpecSVM == InitSVM /\ [][NextSVM]_vars

LegalLabels == {i \in DOMAIN labels : IsPossible(labels[i], c)}

BestAmongLegal(i) ==
    /\ i \in LegalLabels
    /\ bestLabel = labels[i]
    /\ \A j \in LegalLabels : values[j] <= values[i]

\* C11 as stated: the answer is a legal label of maximum decision value, the
\* first such label in the model's label order; never an illegal transition.
C11_BestLegalFirstWins ==
    pc = "answered" =>
        /\ LegalLabels # {} =>
               \E i \in LegalLabels :
                   /\ BestAmongLegal(i)
                   /\ \A j \in LegalLabels : values[j] = values[i] => i <= j
        /\ bestLabel # NilTransition => IsPossible(bestLabel, c)

\* C11 amended: the answer is a legal label of maximum decision value, the
\* last such label in the model's label order; never an illegal transition
\* (no transition at all when no label is legal).
C11_BestLegalLastWins ==
    pc = "answered" =>
        /\ LegalLabels # {} =>
               \E i \in LegalLabels :
                   /\ BestAmongLegal(i)
                   /\ \A j \in LegalLabels : values[j] = values[i] => j <= i
        /\ LegalLabels = {} => bestLabel = NilTransition
        /\ bestLabel # NilTransition => IsPossible(bestLabel, c)

\* Two legal labels tie for the maximum, an illegal one scores as high.
C11_Witness ==
    /\ pc = "answered"
    /\ Len(labels) = MaxLabels
    /\ Cardinality(LegalLabels) = 2
    /\ \A i \in DOMAIN values : values[i] = MaxValue
    /\ \E i \in DOMAIN labels : i \notin LegalLabels /\ i > 1
    /\ bestLabel # NilTransition

\* C12: the bounding step maps every hash to an index in 1..maxFeatures,
\* negates the value exactly when bit 31 of the hash is set, and gives equal
\* hashes equal index and sign.
C12_BoundedIndex ==
    [][pc' = "answered" =>
        /\ DOMAIN xvec' = DOMAIN xvec
        /\ \A i \in DOMAIN xvec :
            /\ xvec'[i].Index \in 1..maxFeatures
            /\ xvec[i].Index.hi >= SignHalf =>
                   /\ xvec'[i].Value = -xvec[i].Value
                   /\ (xvec'[i].Index - 1 - xvec[i].Index.lo
                          - (xvec[i].Index.hi - SignHalf) * HalfWord)
                        % maxFeatures = 0
            /\ xvec[i].Index.hi < SignHalf =>
                   /\ xvec'[i].Value = xvec[i].Value
                   /\ (xvec'[i].Index - 1 - xvec[i].Index.lo
                          - xvec[i].Index.hi * HalfWord) % maxFeatures = 0
        /\ \A i \in DOMAIN xvec : \A j \in DOMAIN xvec :
            xvec[i].Index = xvec[j].Index => xvec'[i] = xvec'[j]]_vars

\* A vector with one hash of each sign has been bounded to the last index.
C12_Witness ==
    /\ pc = "answered"
    /\ maxFeatures = MaxFeatures
    /\ Len(xvec) = MaxVecLen
    /\ \E i \in DOMAIN xvec : xvec[i].Value < 0 /\ xvec[i].Index = maxFeatures
    /\ \E i \in DOMAIN xvec : xvec[i].Value > 0


-----------------------------------------------------------------------------
(* Several GreedyParser.Parse calls running at once on one shared oracle *)

NumParses == 2   \* parses running concurrently

\* Gold trees whose left arcs carry one relation and right arcs the other.
DirectedGoldTrees(len) ==
    {g \in GoldTrees(len) :
        \A d \in g :
            d.Relation = (IF d.Head > d.Dependent THEN RelA ELSE RelB)}

\* Fault: the oracle forgets the gold head of the Buffer front once it has
\* been looked at.
OracleForgetsFront(o, conf) ==
    IF Len(conf.Stack) # 0
    THEN [d \in DOMAIN o \ {conf.Buffer[1]} |-> o[d]]
    ELSE o

\* dependentHeadMapping after o.BestTransition(conf): the method only reads
\* the map.
OracleAfterBestTransition(o, conf) == o

InitPar ==
    \E len \in 1..MaxN :
        /\ n = len
        /\ gold \in DirectedGoldTrees(len)
        /\ oracle = CreateDependentHeadMapping(gold)
        /\ guide = "oracle"
        /\ c = NewConfiguration(len)
        /\ pc = "pool"
        /\ IdleParser
        /\ IdleSerializer
        /\ IdleGuide
        /\ IdleAddress
        /\ pool = [p \in 1..NumParses |->
                      [c |-> NewConfiguration(len), pc |-> "loop",
                       next |-> NilTransition, trace |-> <<>>]]

PoolUnchanged ==
    UNCHANGED <<n, gold, guide, c, pc, steps, last, lastLegal, possible,
                trans, text, out, xvec, maxFeatures, labels, values,
                bestLabel, av, got, fed>>

\* Parse p tests IsTerminal and, if not terminal, asks the shared guide.
PoolBestTransition(p) ==
    /\ pool[p].pc = "loop"
    /\ ~IsTerminal(pool[p].c)
    /\ pool' = [pool EXCEPT ![p].next = BestTransition(oracle, pool[p].c),
                            ![p].pc = "apply"]
    /\ oracle' = OracleAfterBestTransition(oracle, pool[p].c)
    /\ PoolUnchanged

\* Parse p applies the transition it was given to its own Configuration.
PoolApply(p) ==
    /\ pool[p].pc = "apply"
    /\ LET r == Apply(pool[p].next, pool[p].c)
       IN  pool' = [pool EXCEPT
                       ![p].c = r.c,
                       ![p].trace = Append(pool[p].trace, pool[p].next),
                       ![p].pc = IF r.panic THEN "panic" ELSE "loop"]
    /\ UNCHANGED oracle
    /\ PoolUnchanged

\* Parse p finds its Configuration terminal and returns.
PoolReturn(p) ==
    /\ pool[p].pc = "loop"
    /\ IsTerminal(pool[p].c)
    /\ pool' = [pool EXCEPT ![p].pc = "done"]
    /\ UNCHANGED oracle
    /\ PoolUnchanged

NextPar ==
    \E p \in 1..NumParses :
        PoolBestTransition(p) \/ PoolApply(p) \/ PoolReturn(p)

SpecPar == InitPar /\ [][NextPar]_vars

\* The transitions a parse applies when it runs alone on a fresh oracle.
RECURSIVE SoloTrace(_, _, _)
SoloTrace(o, conf, fuel) ==
    IF IsTerminal(conf) \/ fuel = 0 THEN <<>>
    ELSE LET t == BestTransition(o, conf)
         IN  <<t>> \o SoloTrace(o, Apply(t, conf).c, fuel - 1)

RECURSIVE SoloResult(_, _, _)
SoloResult(o, conf, fuel) ==
    IF IsTerminal(conf) \/ fuel = 0 THEN Dependencies(conf)
    ELSE SoloResult(o, Apply(BestTransition(o, conf), conf).c, fuel - 1)

\* C13: asking the shared oracle changes neither its gold mapping nor the
\* asking parse's Configuration, and under every interleaving each parse
\* applies the transitions and returns the dependencies of a run alone.
C13_SharedOracleSafe ==
    /\ [][oracle' = oracle]_vars
    /\ [][\A p \in DOMAIN pool :
            (pool[p].pc = "loop" /\ pool'[p].pc = "apply")
                => pool'[p].c = pool[p].c]_vars
    /\ [](\A p \in DOMAIN pool :
            pool[p].pc = "done" =>
                LET fresh == CreateDependentHeadMapping(gold)
                    start == NewConfiguration(n)
                IN  /\ pool[p].trace = SoloTrace(fresh, start, StepCap)
                    /\ Dependencies(pool[p].c)
                           = SoloResult(fresh, start, StepCap))

\* One parse has returned a full tree while another is still between asking
\* the oracle and applying the answer.
C13_Witness ==
    /\ pc = "pool"
    /\ n = MaxN
    /\ \E p \in DOMAIN pool :
        /\ pool[p].pc = "done"
        /\ Dependencies(pool[p].c) = gold
        /\ \E d \in gold : d.Head > d.Dependent
    /\ \E q \in DOMAIN pool :
        /\ pool[q].pc = "apply"
        /\ pool[q].next.kind = "asRightArc"
        /\ Len(pool[q].trace) > 1


-----------------------------------------------------------------------------
(* AddressedValue.Get and AddressedValue.appendHash *)

DigitChars == <<"0", "1", "2", "3", "4", "5", "6", "7", "8", "9">>

\* c.Tokens[token], c.Tags[token]: the word form and the tag of each token.
Tokens(token) == <<"w", DigitChars[token + 1]>>
Tags(token) == <<"T", DigitChars[token + 1]>>

\* c.Features[token]: nil for ROOT; odd tokens carry the feature "f".
FeaturesIsNil(token) == token = ROOT
FeaturesMap(token) ==
    IF token % 2 = 1 THEN (<<"f">> :> <<"v", DigitChars[token + 1]>>)
    ELSE [name \in {} |-> <<>>]

\* c.Head(token): the dependency that attaches the token, if any.
HeadOf(conf, token) ==
    IF \E d \in conf.Arcs : d.Dependent = token
    THEN [dep |-> CHOOSE d \in conf.Arcs : d.Dependent = token, ok |-> TRUE]
    ELSE [dep |-> ZeroDependency, ok |-> FALSE]

\* The k-th smallest (ascending) or k-th largest element of a set, k from 0.
RECURSIVE KthSmallest(_, _)
KthSmallest(set, k) ==
    LET least == CHOOSE e \in set : \A f \in set : e <= f
    IN  IF k = 0 THEN least ELSE KthSmallest(set \ {least}, k - 1)

RECURSIVE KthLargest(_, _)
KthLargest(set, k) ==
    LET most == CHOOSE e \in set : \A f \in set : f <= e
    IN  IF k = 0 THEN most ELSE KthLargest(set \ {most}, k - 1)

\* c.LeftmostDependent(token, k), c.RightmostDependent(token, k)
LeftmostDependent(conf, token, k) ==
    LET deps == {d.Dependent : d \in {a \in conf.Arcs : a.Head = token}}
    IN  IF Cardinality(deps) <= k THEN [token |-> 0, ok |-> FALSE]
        ELSE [token |-> KthSmallest(deps, k), ok |-> TRUE]

RightmostDependent(conf, token, k) ==
    LET deps == {d.Dependent : d \in {a \in conf.Arcs : a.Head = token}}
    IN  IF Cardinality(deps) <= k THEN [token |-> 0, ok |-> FALSE]
        ELSE [token |-> KthLargest(deps, k), ok |-> TRUE]

Resolved(token) == [token |-> token, ok |-> TRUE, panic |-> FALSE]
Unavailable == [token |-> 0, ok |-> FALSE, panic |-> FALSE]
GetPanics == [token |-> 0, ok |-> FALSE, panic |-> TRUE]

\* Fault: the offset is counted from the bottom of the Stack.
StackTokenFromBottom(conf, index) == conf.Stack[index + 1]

\* c.Stack[stackSize-component.Index-1]
StackToken(conf, index) == conf.Stack[Len(conf.Stack) - index]

\* The switch on component.Source for the component at position idx (from 0).
AddressStep(idx, component, conf, token) ==
    CASE component.Source = STACK ->
           IF Len(conf.Stack) <= component.Index THEN Unavailable
           ELSE Resolved(StackToken(conf, component.Index))
      [] component.Source = BUFFER ->
           IF Len(conf.Buffer) <= component.Index THEN Unavailable
           ELSE Resolved(conf.Buffer[component.Index + 1])
      [] component.Source = LDEP ->
           IF idx = 0 THEN GetPanics
           ELSE LET r == LeftmostDependent(conf, token, component.Index)
                IN  IF r.ok THEN Resolved(r.token) ELSE Unavailable
      [] component.Source = RDEP ->
           IF idx = 0 THEN GetPanics
           ELSE LET r == RightmostDependent(conf, token, component.Index)
                IN  IF r.ok THEN Resolved(r.token) ELSE Unavailable
      [] OTHER -> GetPanics

\* The loop over a.Address, from position idx (from 0) with the token so far.
RECURSIVE ResolveAddress(_, _, _, _)
ResolveAddress(idx, address, conf, token) ==
    IF idx >= Len(address) THEN Resolved(token)
    ELSE LET r == AddressStep(idx, address[idx + 1], conf, token)
         IN  IF r.ok THEN ResolveAddress(idx + 1, address, conf, r.token)
             ELSE r

Found(value) == [value |-> value, ok |-> TRUE, panic |-> FALSE]
NotFound == [value |-> <<>>, ok |-> FALSE, panic |-> FALSE]
Panics == [value |-> <<>>, ok |-> FALSE, panic |-> TRUE]

\* The switch on a.Layer.
LayerValue(a, conf, token) ==
    CASE a.Layer = TOKEN -> Found(Tokens(token))
      [] a.Layer = TAG -> Found(Tags(token))
      [] a.Layer = DEPREL ->
           LET h == HeadOf(conf, token)
           IN  IF h.ok THEN Found(h.dep.Relation) ELSE NotFound
      [] a.Layer = FEATURE ->
           IF FeaturesIsNil(token) THEN NotFound
           ELSE IF a.LayerArg \in DOMAIN FeaturesMap(token)
           THEN Found(FeaturesMap(token)[a.LayerArg])
           ELSE NotFound
      [] OTHER -> Panics

Get(a, conf) ==
    LET r == ResolveAddress(0, a.Address, conf, 0)
    IN  IF r.panic THEN Panics
        ELSE IF ~r.ok THEN NotFound
        ELSE LayerValue(a, conf, r.token)

\* What is written to the hash: an 8-byte little-endian integer or the bytes
\* of a string.
U64(number) == [u64 |-> number]
Bytes(string) == [bytes |-> string]

RECURSIVE ComponentWrites(_, _)
ComponentWrites(address, idx) ==
    IF idx > Len(address) THEN <<>>
    ELSE <<U64(address[idx].Source), U64(address[idx].Index)>>
             \o ComponentWrites(address, idx + 1)

appendHash(a) ==
    ComponentWrites(a.Address, 1)
        \o (IF a.Layer = FEATURE THEN <<Bytes(a.LayerArg)>> ELSE <<>>)
        \o <<U64(a.Layer)>>
        \o <<Bytes(a.Value)>>

\* Stacks and buffers in sentence order.
OrderedTokenSeqs ==
    {s \in TokenSeqs : \A i \in DOMAIN s : \A j \in DOMAIN s :
        i < j => s[i] < s[j]}

Addresses ==
    LET first == {AddressComponent(src, k) :
                     src \in {STACK, BUFFER, LDEP, RDEP}, k \in 0..MaxConfLen}
        hop == {AddressComponent(src, k) : src \in {LDEP, RDEP}, k \in 0..1}
    IN  {<<f>> : f \in first}
            \cup {<<f, h>> : f \in {g \in first : g.Index = 0}, h \in hop}

AddressedValues ==
    {AddressedValue(address, layer, <<"f">>, <<>>) :
        address \in Addresses, layer \in {TOKEN, TAG, DEPREL, FEATURE}}

InitAddr ==
    /\ n = MaxN
    /\ gold = {}
    /\ oracle = CreateDependentHeadMapping(gold)
    /\ guide = "none"
    /\ \E stack \in OrderedTokenSeqs, buffer \in OrderedTokenSeqs,
          arcs \in ArcSets :
           c = [Stack |-> stack, Buffer |-> buffer, Arcs |-> arcs]
    /\ pc = "addressed"
    /\ IdleParser
    /\ IdleSerializer
    /\ IdleGuide
    /\ IdlePool
    /\ av \in AddressedValues
    /\ got = NoResult
    /\ fed = <<>>

AddrUnchanged ==
    UNCHANGED <<n, gold, oracle, guide, c, steps, last, lastLegal, possible,
                trans, text, out, xvec, maxFeatures, labels, values,
                bestLabel, pool>>

\* a.Get(c); the caller keeps the value found in a.Value.
GetValue ==
    /\ pc = "addressed"
    /\ LET r == Get(av, c)
       IN  /\ got' = r
           /\ av' = IF r.ok THEN [av EXCEPT !.Value = r.value] ELSE av
           /\ pc' = IF r.panic THEN "panic" ELSE "resolved"
    /\ UNCHANGED fed
    /\ AddrUnchanged

\* a.appendHash(hash) for a value that was found.
AppendHash ==
    /\ pc = "resolved"
    /\ got.ok
    /\ fed' = appendHash(av)
    /\ pc' = "hashed"
    /\ UNCHANGED <<av, got>>
    /\ AddrUnchanged

NextAddr == GetValue \/ AppendHash

SpecAddr == InitAddr /\ [][NextAddr]_vars

SingleComponent(source) ==
    /\ pc \in {"resolved", "hashed", "panic"}
    /\ Len(av.Address) = 1
    /\ av.Address[1].Source = source

\* The outcome of Get when the address resolves to the given token.
GetAt(token) ==
    /\ ~got.panic
    /\ av.Layer = TOKEN => got = Found(Tokens(token))
    /\ av.Layer = TAG => got = Found(Tags(token))
    /\ av.Layer = DEPREL /\ token \notin Attached(c) => got = NotFound
    /\ av.Layer = DEPREL /\ got.ok =>
           \E d \in c.Arcs : d.Dependent = token /\ d.Relation = got.value

\* C14: [STACK k] resolves to the token k below the Stack top and
\* [BUFFER k] to the token k behind the Buffer front; with k at or beyond
\* the number of elements Get returns unavailable without panic.
C14_StackBufferOffsets ==
    /\ SingleComponent(STACK) =>
           LET k == av.Address[1].Index
           IN  IF k < Len(c.Stack)
               THEN GetAt(c.Stack[Len(c.Stack) - k])
               ELSE got = NotFound
    /\ SingleComponent(BUFFER) =>
           LET k == av.Address[1].Index
           IN  IF k < Len(c.Buffer)
               THEN GetAt(c.Buffer[1 + k])
               ELSE got = NotFound

\* STACK 1 on a two-element Stack gives the form of the lower token.
C14_Witness ==
    /\ SingleComponent(STACK)
    /\ av.Address[1].Index = 1
    /\ Len(c.Stack) = 2
    /\ av.Layer = TOKEN
    /\ got = Found(Tokens(c.Stack[1]))
    /\ Tokens(c.Stack[1]) # Tokens(c.Stack[2])

\* C15: appendHash writes each component's source and index in path order,
\* then the layer, then the feature argument (FEATURE layer only), then the
\* value.
C15_HashFieldOrder ==
    pc = "hashed" =>
        fed = ComponentWrites(av.Address, 1)
                \o <<U64(av.Layer)>>
                \o (IF av.Layer = FEATURE THEN <<Bytes(av.LayerArg)>> ELSE <<>>)
                \o <<Bytes(av.Value)>>


-----------------------------------------------------------------------------
(* Further properties of the parsing loop *)

OracleAsked ==
    /\ guide = "oracle"
    /\ pc = "parsing"
    /\ ~IsTerminal(c)
    /\ Len(c.Stack) # 0

\* Some token of the Buffer has the Buffer front as its gold head.
FrontNeeded ==
    \E i \in DOMAIN c.Buffer : \E d \in gold :
        d.Dependent = c.Buffer[i] /\ d.Head = c.Buffer[1]

\* The Stack top may be left-attached to the Buffer front.
LeftArcApplies ==
    /\ c.Stack[Len(c.Stack)] # ROOT
    /\ \E d \in gold :
           d.Dependent = c.Stack[Len(c.Stack)] /\ d.Head = c.Buffer[1]

OracleRightArcApplied ==
    guide = "oracle" /\ steps' = steps + 1 /\ last'.kind = "asRightArc"

\* C16: while a token of the Buffer has the Buffer front b as gold head the
\* oracle does not return RightArc (it returns Shift unless a LeftArc
\* applies), and when b is right-attached every gold dependent of b to its
\* right has already been attached to b.
C16_NoEarlyRightArc ==
    /\ []((OracleAsked /\ FrontNeeded) =>
            /\ BestTransition(oracle, c).kind # "asRightArc"
            /\ ~LeftArcApplies => BestTransition(oracle, c) = asShift)
    /\ [][OracleRightArcApplied =>
            /\ ~FrontNeeded
            /\ \A d \in gold :
                (d.Head = c.Buffer[1] /\ d.Dependent > c.Buffer[1])
                    => d \in c.Arcs]_vars

\* A token that had its dependent behind it in the Buffer has been shifted,
\* has taken the dependent and is now right-attached itself.
C16_Witness ==
    /\ guide = "oracle"
    /\ last.kind = "asRightArc"
    /\ \E d \in c.Arcs : \E e \in c.Arcs :
        /\ d.Head = e.Dependent
        /\ e.Head < e.Dependent
        /\ d.Head < d.Dependent
        /\ e.Head = c.Buffer[1]

ProjectiveOracleParse == guide = "oracle" /\ GoldIsProjective

\* C17: for a projective gold tree every transition the oracle returns is
\* legal where it is returned, and the parse ends with Arcs equal to the gold
\* dependency set.
C17_ProjectiveOracleParse ==
    /\ [](ProjectiveOracleParse => (lastLegal /\ pc # "panic"))
    /\ [](ProjectiveOracleParse /\ pc = "parsing" /\ ~IsTerminal(c)
            => IsPossible(BestTransition(oracle, c), c))
    /\ ProjectiveOracleParse ~> (pc = "done" /\ Dependencies(c) = gold)

\* A projective tree with arcs in both directions has been parsed, the last
\* legal transition being the Shift of ROOT.
C17_Witness ==
    /\ ProjectiveOracleParse
    /\ pc = "done"
    /\ n = MaxN
    /\ lastLegal
    /\ last = asShift
    /\ c.Stack = <<ROOT>>
    /\ \E d \in c.Arcs : d.Head > d.Dependent
    /\ \E d \in c.Arcs : d.Head # ROOT /\ d.Head < d.Dependent
    /\ Cardinality(c.Arcs) = n

\* head leads to token along the arcs
RECURSIVE Reaches(_, _, _, _)
Reaches(arcs, head, token, fuel) ==
    /\ fuel > 0
    /\ \E d \in arcs :
        /\ d.Head = head
        /\ (d.Dependent = token \/ Reaches(arcs, d.Dependent, token, fuel - 1))

Acyclic(arcs) ==
    \A d \in arcs : ~Reaches(arcs, d.Dependent, d.Dependent, Cardinality(arcs))

\* C18: an attached token is in neither Stack nor Buffer, a new arc never has
\* an attached token as head or dependent, and Arcs has no cycle.
C18_AttachedTokensAreGone ==
    /\ [](\A token \in Attached(c) :
            Count(c.Stack, token) = 0 /\ Count(c.Buffer, token) = 0)
    /\ [][\A d \in c'.Arcs \ c.Arcs :
            d.Head \notin Attached(c) /\ d.Dependent \notin Attached(c)]_vars
    /\ [][Attached(c) \subseteq Attached(c')]_vars
    /\ [](Acyclic(c.Arcs))

\* A chain of two arcs has been built and tokens are still being processed.
C18_Witness ==
    /\ guide = "legal"
    /\ pc = "parsing"
    /\ ~IsTerminal(c)
    /\ \E d \in c.Arcs : \E e \in c.Arcs :
        d.Dependent = e.Head /\ d.Head > d.Dependent /\ e.Head > e.Dependent

\* C19: Stack from bottom to top followed by Buffer from front to back is
\* strictly increasing.
C19_SentenceOrder ==
    LET line == c.Stack \o c.Buffer
    IN  \A i \in DOMAIN line : \A j \in DOMAIN line :
            i < j => line[i] < line[j]

\* After a RightArc the former Stack top heads the Buffer above a Stack that
\* still holds a token.
C19_Witness ==
    /\ guide = "legal"
    /\ last.kind = "asRightArc"
    /\ Len(c.Stack) >= 2
    /\ Len(c.Buffer) >= 1
    /\ c.Stack[Len(c.Stack)] # ROOT
    /\ c.Buffer[1] = c.Stack[Len(c.Stack)] + 1

\* C20: ROOT is never a dependent; it is the bottom of the Stack, or the
\* Buffer front under an empty Stack.
C20_RootNeverDependent ==
    /\ ROOT \notin Attached(c)
    /\ \/ Len(c.Stack) > 0 /\ c.Stack[1] = ROOT
       \/ c.Stack = <<>> /\ Len(c.Buffer) > 0 /\ c.Buffer[1] = ROOT
    /\ Count(c.Stack, ROOT) + Count(c.Buffer, ROOT) = 1

\* ROOT has taken a dependent by RightArc and is back at the Buffer front.
C20_Witness ==
    /\ guide = "legal"
    /\ c.Stack = <<>>
    /\ Len(c.Buffer) >= 2
    /\ c.Buffer[1] = ROOT
    /\ \E d \in c.Arcs : d.Head = ROOT
    /\ \E d \in c.Arcs : d.Head > d.Dependent

====
